---- MODULE Spec2Model ----
(***************************************************************************)
(* The mind-map canvas (MindMapCanvas) of visual-muse-chat, in its two     *)
(* variants: the two-click "Connect" variant and the drag-to-connect       *)
(* variant, mounted by a host that passes no onNodeSelect callback         *)
(* (ProjectDashboard) or by the Index page, whose handleNodeSelect is a    *)
(* new function on each of its renders.                                    *)
(*                                                                         *)
(* One step of the model is one user event handled to completion: the      *)
(* handler, the batched React state updates, the re-render, and, when a    *)
(* dependency of the canvas effect changed, the effect's cleanup           *)
(* (destroy) and re-run (a new cytoscape instance seeded with the root     *)
(* node, new listeners closing over the values of that render) and the     *)
(* re-render caused by its setCy.                                          *)
(*                                                                         *)
(* The listeners registered by the effect read the isConnecting,           *)
(* firstNode, isDragging, dragStart and cy (through createEdge) of the     *)
(* render in which the effect ran; the toolbar and modal handlers read     *)
(* those of the latest render.  The model keeps both.                      *)
(*                                                                         *)
(* cytoscape is a dependency: what cy.add does with an element it refuses  *)
(* (a duplicate id, an edge to a missing node) depends on its build, which *)
(* either reports it on the console and goes on or throws (addThrows).     *)
(*                                                                         *)
(* The project state container (ProjectProvider) is a second component,    *)
(* explored on its own from its mount (SpecProvider): its async functions  *)
(* suspend at each await and resume when the mock backend answers.         *)
(***************************************************************************)
EXTENDS Integers, Sequences, FiniteSets, TLC

VARIABLES
  variant,        \* "twoclick" (Connect button) or "drag" (drag-to-connect)
  host,           \* "none": <MindMapCanvas />, "index": Index page
  addThrows,      \* the cytoscape build: cy.add throws on what it refuses
  cy,             \* the graph of the instance held in the cy state (displayed)
  hcy,            \* the cy the listeners' createEdge closed over: <<>> is null
  selectedNode,   \* useState selectedNode
  isEditing,      \* useState isEditing
  editText,       \* useState editText
  isConnecting,   \* useState isConnecting (two-click variant)
  firstNode,      \* useState firstNode    (two-click variant)
  isDragging,     \* useState isDragging   (drag variant)
  dragStart,      \* useState dragStart    (drag variant): node id or NoId
  dragEnd,        \* useState dragEnd      (drag variant): 0 is null, 1 a point {x, y}
  hIsConnecting,  \* isConnecting as closed over by the listeners
  hFirstNode,     \* firstNode as closed over by the listeners
  hIsDragging,    \* isDragging as closed over by the listeners
  hDragStart,     \* dragStart as closed over by the listeners
  hostSelected,   \* Index.selectedNode: the value last passed to onNodeSelect
  clock,          \* the value Date.now() returned last
  lastOp,         \* the event handled last, with what it was given
  provider,       \* the useState fields of ProjectProvider
  pending,        \* the calls of its async functions that await a response
  calls,          \* how many calls the dashboard has made
  mockChats,      \* the chats the mock backend stores, by project
  localStorage,   \* window.localStorage: what getItem returns, by key
  chat,           \* the useState fields of the mounted ChatInterface
  timers,         \* the setTimeout callbacks of ChatInterface not yet run
  auth,           \* the useState fields of AuthProvider
  authToken,      \* httpService.authToken
  logins          \* how many login calls await a response, by arguments

vars == <<variant, host, addThrows, cy, hcy, selectedNode, isEditing, editText,
          isConnecting, firstNode, isDragging, dragStart, dragEnd,
          hIsConnecting, hFirstNode, hIsDragging, hDragStart,
          hostSelected, clock, lastOp, provider, pending, calls, mockChats,
          localStorage, chat, timers, auth, authToken, logins>>

\* the state of the canvas and of its host
canvasVars == <<variant, host, addThrows, cy, hcy, selectedNode, isEditing,
                editText, isConnecting, firstNode, isDragging, dragStart,
                dragEnd, hIsConnecting, hFirstNode, hIsDragging, hDragStart,
                hostSelected, clock>>

\* the state of ProjectProvider and of the mock backend
providerVars == <<provider, pending, calls, mockChats>>

\* the state of AuthProvider and the token HttpService holds
authVars == <<auth, authToken, logins>>

\* the state outside the canvas and its host
outerVars == <<providerVars, localStorage, chat, timers, authVars>>

----------------------------------------------------------------------------
(* Bounds *)

\* Date.now() returns a value in 0..MaxClock
MaxClock == 0

\* the dashboard calls selectProject and selectChat at most MaxCalls times
MaxCalls == 3

\* localStorage holds at most MaxDocs documents
MaxDocs == 2

\* the chat panel is mounted at most MaxMounts times
MaxMounts == 3

\* the chat panel takes a message while it shows fewer than MaxMessages
MaxMessages == 4

\* at most MaxLogins login calls await their response at a time
MaxLogins == 3

----------------------------------------------------------------------------
(* Text: a string is a sequence of characters *)

RootLabel == <<"M", "a", "i", "n", " ", "I", "d", "e", "a">>

NewLabel == <<"N", "e", "w", " ", "I", "d", "e", "a">>

EmptyText == <<>>

\* what the user types into the edit modal
TypedTexts == { <<>>, <<" ">>, <<" ", "a", " ">> }

RECURSIVE TrimStart(_)
TrimStart(s) ==
  IF s # <<>> /\ Head(s) = " " THEN TrimStart(Tail(s)) ELSE s

RECURSIVE TrimEnd(_)
TrimEnd(s) ==
  IF s # <<>> /\ s[Len(s)] = " " THEN TrimEnd(SubSeq(s, 1, Len(s) - 1)) ELSE s

\* a variant of Trim that leaves the text as typed, as `!editText` would
TrimSkipped(s) == s

\* String.prototype.trim
Trim(s) == TrimEnd(TrimStart(s))

----------------------------------------------------------------------------
(* Identifiers *)

RootId == "root"

NoId == "none"

\* the token state and httpService.authToken when null
NoToken == "none"

\* the user state when null
NoUser == [ id |-> "none", email |-> "none", name |-> "none" ]

\* `node-${Date.now()}`
NodeId(t) == "node-" \o ToString(t)

\* `edge-${sourceId}-${targetId}`
EdgeId(s, t) == "edge-" \o s \o "-" \o t

\* the type the Add Node button passes to addNode, and addNode's default; the
\* Secondary and Accent buttons call the same handler with another style tag
NodeTypes == {"primary"}

----------------------------------------------------------------------------
(* The cytoscape instance: elements by id *)

\* cytoscape({ elements: [ root ] })
SeedGraph ==
  [ nodes |-> {RootId},
    label |-> (RootId :> RootLabel),
    type  |-> (RootId :> "root"),
    edges |-> {} ]

ElementIds(g) == g.nodes \cup { e.id : e \in g.edges }

\* cy.add refuses a node: "Can not create second element with ID"
CyRefusesNode(g, id) == id \in ElementIds(g)

\* cy.add({ data: { id, label, type } }): an id already in use is refused
CyAddNode(g, id, l, ty) ==
  IF CyRefusesNode(g, id) THEN g
  ELSE [ g EXCEPT !.nodes = @ \cup {id},
                  !.label = (id :> l) @@ @,
                  !.type  = (id :> ty) @@ @ ]

\* cy.add refuses an edge: the id is in use, or "Can not create edge with
\* nonexistant source / target"
CyRefusesEdge(g, id, s, t) ==
  id \in ElementIds(g) \/ s \notin g.nodes \/ t \notin g.nodes

\* cy.add({ data: { id, source, target } }): an id already in use or an
\* endpoint that is no node of the instance is refused
CyAddEdge(g, id, s, t) ==
  IF CyRefusesEdge(g, id, s, t) THEN g
  ELSE [ g EXCEPT !.edges = @ \cup { [id |-> id, source |-> s, target |-> t] } ]

\* cy.remove(`#${id}`): the node and the edges connected to it
CyRemove(g, id) ==
  IF id \notin g.nodes THEN g
  ELSE [ nodes |-> g.nodes \ {id},
         label |-> [ n \in g.nodes \ {id} |-> g.label[n] ],
         type  |-> [ n \in g.nodes \ {id} |-> g.type[n] ],
         edges |-> { e \in g.edges : e.source # id /\ e.target # id } ]

\* cy.$(`#${id}`).data('label', l)
CySetLabel(g, id, l) ==
  IF id \notin g.nodes THEN g ELSE [ g EXCEPT !.label[id] = l ]

\* what of an instance createEdge reads and writes
Elements(g) == [ nodes |-> g.nodes, edges |-> g.edges ]

\* cy.edges(`[source="s"][target="t"], [source="t"][target="s"]`)
CyEdgesBetween(g, s, t) ==
  { e \in g.edges : \/ e.source = s /\ e.target = t
                    \/ e.source = t /\ e.target = s }

----------------------------------------------------------------------------
(* Node data as React state holds it.  node.data() is the element's own    *)
(* data object: live is TRUE while the value is that object of a node of   *)
(* the displayed instance, so that a later data('label', ..) shows through *)
(* it.  A spread copy, or the data of a node that was removed or whose     *)
(* instance was destroyed, is not live: nothing writes to it any more.     *)

NoNode == [ id |-> NoId, label |-> EmptyText, type |-> "none", live |-> FALSE ]

IsNull(r) == r.id = NoId

\* node.data()
NodeData(g, n) == [ id |-> n, label |-> g.label[n], type |-> g.type[n], live |-> TRUE ]

Freeze(r) == [ r EXCEPT !.live = FALSE ]

\* Object.is on two held values
Identical(a, b) ==
  \/ IsNull(a) /\ IsNull(b)
  \/ a.live /\ b.live /\ a.id = b.id

\* a held value after cy.$(`#${id}`).data('label', l)
RefAfterSetLabel(r, id, l) ==
  IF r.live /\ r.id = id THEN [ r EXCEPT !.label = l ] ELSE r

\* a held value after cy.remove(`#${id}`)
RefAfterRemove(r, id) ==
  IF r.live /\ r.id = id THEN Freeze(r) ELSE r

\* the fields the info panel and the host compare
SameData(a, b) == a.id = b.id /\ a.label = b.label /\ a.type = b.type

----------------------------------------------------------------------------
(* createEdge *)

\* a variant of createEdge without the lookup, naming each edge by a serial
createEdgeUnchecked(g, sourceId, targetId) ==
  CyAddEdge(g, "edge-" \o ToString(Cardinality(g.edges)), sourceId, targetId)

\* a variant of createEdge whose lookup reads one direction only
createEdgeOneWay(g, sourceId, targetId) ==
  IF { e \in g.edges : e.source = sourceId /\ e.target = targetId } # {} THEN g
  ELSE CyAddEdge(g, EdgeId(sourceId, targetId), sourceId, targetId)

createEdge(g, sourceId, targetId) ==
  IF CyEdgesBetween(g, sourceId, targetId) # {} THEN g
  ELSE CyAddEdge(g, EdgeId(sourceId, targetId), sourceId, targetId)

\* createEdge reaches cy.add and cy.add refuses the edge
createEdgeRefused(g, sourceId, targetId) ==
  /\ CyEdgesBetween(g, sourceId, targetId) = {}
  /\ CyRefusesEdge(g, EdgeId(sourceId, targetId), sourceId, targetId)

\* createEdge as a listener calls it: on the cy it closed over, null at mount
ListenerCreateEdge(h, sourceId, targetId) ==
  IF h = <<>> THEN h ELSE << createEdge(h[1], sourceId, targetId) >>

\* that call reaches cy.add and cy.add refuses the edge
ListenerRefused(h, sourceId, targetId) ==
  h # <<>> /\ createEdgeRefused(h[1], sourceId, targetId)

\* that call returns at "Edge already exists"
ListenerFindsEdge(h, sourceId, targetId) ==
  h # <<>> /\ CyEdgesBetween(h[1], sourceId, targetId) # {}

----------------------------------------------------------------------------
(* onNodeSelect?.(v) and the render it causes *)

\* Index.handleNodeSelect: setSelectedNode(v)
HostAfter(v) == IF host = "index" THEN v ELSE hostSelected

\* Index renders again, and with it a new handleNodeSelect reaches the canvas
HostRenders(v) == host = "index" /\ ~Identical(hostSelected, v)

\* How far the run has followed, event by event from the mount, the script
\*   1 Add Node, 2 tap root, 3 Add Node, 4 Connect, 5 tap root, 6 tap root,
\*   7 tap the node that step 3 connected to root, 8 Delete
\* where an Add Node counts only when its id is free; -1 once it left it.
ScriptStep(name, id) ==
  LET k == lastOp.script
      free == id \notin cy.nodes
      second == { e.target : e \in { d \in cy.edges : d.source = RootId } }
  IN  IF k = 0 /\ name = "addNode" /\ free THEN 1
      ELSE IF k = 1 /\ name = "tapNode" /\ id = RootId THEN 2
      ELSE IF k = 2 /\ name = "addNode" /\ free THEN 3
      ELSE IF k = 3 /\ name = "startConnecting" THEN 4
      ELSE IF k = 4 /\ name = "tapNode" /\ id = RootId THEN 5
      ELSE IF k = 5 /\ name = "tapNode" /\ id = RootId THEN 6
      ELSE IF k = 6 /\ name = "tapNode" /\ id \in second THEN 7
      ELSE IF k = 7 /\ name = "deleteSelected" THEN 8
      ELSE -1

\* lastOp before any event
Mounted ==
  [ op |-> "mount", dup |-> FALSE, err |-> FALSE, script |-> 0, note |-> 0 ]

\* lastOp: the handler that ran, whether a createEdge call it made returned
\* early because an edge already connected the pair, whether a createEdge
\* call it made reached cy.add with an edge that cy.add refused (reported on
\* the console or thrown), the script step, and a count the handler reports
\* (OpNote)
OpErr(name, id, dup, err) ==
  [ op |-> name, dup |-> dup, err |-> err, script |-> ScriptStep(name, id),
    note |-> 0 ]

Op(name, id, dup) == OpErr(name, id, dup, FALSE)

\* a handler outside the canvas, with the count it reports
OpNote(name, note) == [ Op(name, NoId, FALSE) EXCEPT !.note = note ]

\* The commit of one event: g and hg are the instances after the handler
\* ran, hf the firstNode object the listeners hold, the other arguments the
\* state the handler set; rerun says that a dependency of the effect
\* changed in this render.
Render(g, hg, sel, fst, hf, conn, drag, ds, de, hs, rerun) ==
  /\ isConnecting' = conn
  /\ isDragging' = drag
  /\ dragStart' = ds
  /\ dragEnd' = de
  /\ IF rerun
       THEN \* cleanup: destroy(); effect: a new instance, new listeners
            /\ cy' = SeedGraph
            /\ hcy' = << Elements(g) >>
            /\ selectedNode' = Freeze(sel)
            /\ firstNode' = Freeze(fst)
            /\ hostSelected' = Freeze(hs)
            /\ hIsConnecting' = conn
            /\ hFirstNode' = Freeze(fst)
            /\ hIsDragging' = drag
            /\ hDragStart' = ds
       ELSE /\ cy' = g
            /\ hcy' = hg
            /\ selectedNode' = sel
            /\ firstNode' = fst
            /\ hostSelected' = hs
            /\ hFirstNode' = hf
            /\ UNCHANGED <<hIsConnecting, hIsDragging, hDragStart>>

\* the commit of an event that leaves the listeners' firstNode object alone
Commit(g, hg, sel, fst, conn, drag, ds, de, hs, rerun) ==
  Render(g, hg, sel, fst, hFirstNode, conn, drag, ds, de, hs, rerun)

\* the effect's dependency list
DepsChanged(hostRendered, drag, newDragStart) ==
  \/ hostRendered
  \/ variant = "drag" /\ (drag # isDragging \/ newDragStart)

----------------------------------------------------------------------------
(* ProjectProvider: its state, the mock backend of HttpService, and its    *)
(* async functions.  A function reads projects, currentProject and chats   *)
(* of the render that created it, also after an await, and the functions   *)
(* it calls are those of the same render.                                  *)

Range(q) == { q[i] : i \in 1..Len(q) }

\* mockProjects, by id
MockProjects == << "project-1", "project-2" >>

\* mockChats[projectId] || [] as mockData declares it, by id
MockChats(projectId) ==
  IF projectId = "project-1" THEN << "chat-1-1", "chat-1-2" >>
  ELSE IF projectId = "project-2" THEN << "chat-2-1" >>
  ELSE << >>

\* getMockChats(projectId) on the store as it is now
getMockChats(projectId) ==
  IF projectId \in DOMAIN mockChats THEN mockChats[projectId] ELSE << >>

\* getMockMessages(chatId): mockMessages[chatId] || [], the list stored for
\* a chat of mockData by its chat; no list is stored for a created chat
MockMessages(chatId) ==
  IF \E p \in Range(MockProjects) : chatId \in Range(MockChats(p))
    THEN << chatId >> ELSE << >>

\* `chat-${Date.now()}`
ChatId(t) == "chat-" \o ToString(t)

\* the useState initial values
ProviderState ==
  [ projects          |-> << >>,
    currentProject    |-> NoId,
    currentChat       |-> NoId,
    chats             |-> << >>,
    messages          |-> << >>,
    isLoadingProjects |-> FALSE,
    isLoadingChats    |-> FALSE,
    isLoadingMessages |-> FALSE ]

\* what the functions of one render read from it
Closure(st) ==
  [ projects |-> st.projects, currentProject |-> st.currentProject,
    chats |-> st.chats ]

\* the finally blocks of the functions of chain, once the innermost returned
Finally(st, chain) ==
  [ st EXCEPT
      !.isLoadingProjects = IF "loadProjects" \in Range(chain) THEN FALSE ELSE @,
      !.isLoadingChats    = IF "selectProject" \in Range(chain) THEN FALSE ELSE @,
      !.isLoadingMessages = IF "selectChat" \in Range(chain) THEN FALSE ELSE @ ]

\* a call that awaits its response: k numbers the call of the dashboard (0:
\* the mount effect), root is that call, chain the functions whose finally
\* blocks wait for it, snap the closure
Await(k, root, pc, arg, chain, snap) ==
  [ k |-> k, root |-> root, pc |-> pc, arg |-> arg, chain |-> chain,
    snap |-> snap ]

\* selectChat(chatId) up to its await, called within chain: the state after
\* it and the call it leaves waiting
selectChat(st, k, root, chatId, chain, snap) ==
  IF snap.currentProject = NoId \/ chatId \notin Range(snap.chats)
    THEN [ st |-> Finally(st, chain), waits |-> {} ]
    ELSE [ st |-> [ st EXCEPT !.currentChat = chatId,
                              !.isLoadingMessages = TRUE ],
           waits |-> { Await(k, root, "getMessages", chatId,
                             Append(chain, "selectChat"), snap) } ]

\* selectProject(projectId) up to its await
selectProject(st, k, root, projectId, chain, snap) ==
  IF projectId \notin Range(snap.projects)
    THEN [ st |-> Finally(st, chain), waits |-> {} ]
    ELSE [ st |-> [ st EXCEPT !.currentProject = projectId,
                              !.currentChat = NoId,
                              !.messages = << >>,
                              !.isLoadingChats = TRUE ],
           waits |-> { Await(k, root, "getChats", projectId,
                             Append(chain, "selectProject"), snap) } ]

\* the mount effect has called loadProjects, which awaits getProjects
ProviderMounted ==
  /\ provider = [ ProviderState EXCEPT !.isLoadingProjects = TRUE ]
  /\ pending = { Await(0, [fn |-> "loadProjects", arg |-> NoId], "getProjects",
                       NoId, << "loadProjects" >>, Closure(ProviderState)) }
  /\ calls = 0
  /\ mockChats = [ p \in Range(MockProjects) |-> MockChats(p) ]

\* a step of the provider: the state it sets and the calls left waiting
ProviderStep(name, r, done) ==
  /\ provider' = r.st
  /\ pending' = (pending \ done) \cup r.waits
  /\ lastOp' = Op(name, NoId, FALSE)
  /\ UNCHANGED <<canvasVars, mockChats, localStorage, chat, timers, authVars>>

\* getProjects resolves in loadProjects
GetProjectsResolves(t) ==
  /\ t \in pending
  /\ t.pc = "getProjects"
  /\ UNCHANGED calls
  /\ LET projectData == MockProjects
         st == [ provider EXCEPT !.projects = projectData ]
     IN  ProviderStep("getProjects",
           IF t.snap.currentProject = NoId /\ Len(projectData) > 0
             THEN selectProject(st, t.k, t.root, projectData[1], t.chain, t.snap)
             ELSE [ st |-> Finally(st, t.chain), waits |-> {} ],
           {t})

\* getChats resolves in selectProject
GetChatsResolves(t) ==
  /\ t \in pending
  /\ t.pc = "getChats"
  /\ UNCHANGED calls
  /\ LET chatData == getMockChats(t.arg)
         st == [ provider EXCEPT !.chats = chatData ]
     IN  ProviderStep("getChats",
           IF Len(chatData) > 0
             THEN selectChat(st, t.k, t.root, chatData[1], t.chain, t.snap)
             ELSE [ st |-> Finally(st, t.chain), waits |-> {} ],
           {t})

\* getMessages resolves in selectChat
GetMessagesResolves(t) ==
  /\ t \in pending
  /\ t.pc = "getMessages"
  /\ UNCHANGED calls
  /\ ProviderStep("getMessages",
       [ st |-> Finally([ provider EXCEPT !.messages = MockMessages(t.arg) ],
                        t.chain),
         waits |-> {} ],
       {t})

\* a click on a project card of the dashboard
ClickProject(projectId) ==
  /\ calls < MaxCalls
  /\ projectId \in Range(provider.projects)
  /\ calls' = calls + 1
  /\ ProviderStep("selectProject",
       selectProject(provider, calls + 1,
                     [fn |-> "selectProject", arg |-> projectId],
                     projectId, << >>, Closure(provider)),
       {})

\* a click on a chat card of the dashboard
ClickChat(chatId) ==
  /\ calls < MaxCalls
  /\ chatId \in Range(provider.chats)
  /\ calls' = calls + 1
  /\ ProviderStep("selectChat",
       selectChat(provider, calls + 1,
                  [fn |-> "selectChat", arg |-> chatId],
                  chatId, << >>, Closure(provider)),
       {})

\* the Create button of the New Chat dialog, shown while a project is
\* selected: createChat(name) up to its await
ClickCreateChat ==
  /\ calls < MaxCalls
  /\ provider.currentProject # NoId
  /\ calls' = calls + 1
  /\ ProviderStep("createChat",
       [ st |-> provider,
         waits |-> { Await(calls + 1, [fn |-> "createChat", arg |-> NoId],
                           "createChat", provider.currentProject,
                           << "createChat" >>, Closure(provider)) } ],
       {})

\* HttpService.createChat resolves in createChat: the backend stores the
\* new chat under `chat-${Date.now()}`, createChat appends it to the latest
\* chats and calls the selectChat of its own render
CreateChatResolves(t, now) ==
  /\ t \in pending
  /\ t.pc = "createChat"
  /\ now \in clock..MaxClock
  /\ clock' = now
  /\ mockChats' = [ mockChats EXCEPT ![t.arg] = Append(@, ChatId(now)) ]
  /\ LET newChat == ChatId(now)
         st == [ provider EXCEPT !.chats = Append(@, newChat) ]
         r  == selectChat(st, t.k, t.root, newChat, t.chain, t.snap)
     IN  /\ provider' = r.st
         /\ pending' = (pending \ {t}) \cup r.waits
  /\ lastOp' = Op("createChatResolves", NoId, FALSE)
  /\ UNCHANGED <<calls, localStorage, chat, timers, authVars, variant, host, addThrows, cy, hcy, selectedNode,
                 isEditing, editText, isConnecting, firstNode, isDragging,
                 dragStart, dragEnd, hIsConnecting, hFirstNode, hIsDragging,
                 hDragStart, hostSelected>>

----------------------------------------------------------------------------
(* DocumentStorage: folders and documents kept as JSON texts in            *)
(* localStorage.  A stored text is held as what JSON.parse makes of it.    *)

\* DocumentStorage.FOLDERS_KEY
FOLDERS_KEY == "visual_mind_folders"

\* DocumentStorage.STORAGE_KEY
STORAGE_KEY == "visual_mind_documents"

\* the keys DocumentStorage uses
DocumentKeys == { FOLDERS_KEY, STORAGE_KEY }

\* the keys AuthProvider uses
AuthKeys == { "auth_token", "auth_user" }

StorageKeys == DocumentKeys \cup AuthKeys

\* getItem of a key that was never set: null
Missing == [ set |-> FALSE, ok |-> FALSE, json |-> << >> ]

\* a text that JSON.parse throws on
Unparsable == [ set |-> TRUE, ok |-> FALSE, json |-> << >> ]

\* a text stored as it is, which JSON.parse would throw on
Text(s) == [ set |-> TRUE, ok |-> FALSE, json |-> s ]

\* JSON.stringify(v), as the text that JSON.parse reads back as v
JSONstringify(v) == [ set |-> TRUE, ok |-> TRUE, json |-> v ]

\* the folder names the user types or picks
FolderNames == { "General", "Work", "Home" }

\* the documents of an upload: `doc_${Date.now()}_${random}`
DocIds == { "doc_" \o ToString(i) : i \in 1..MaxDocs }

\* what new Date() is at an upload, as toISOString gives it
UploadDates == { "2024-01-15T10:30:00.000Z" }

\* a Date as JSON.stringify writes it (toISOString)
DateToJSON(d) == d.iso

\* new Date(doc.uploadDate)
NewDate(text) == [ iso |-> text ]

\* a document as JSON.stringify writes it
DocToJSON(doc) ==
  [ id |-> doc.id, folder |-> doc.folder, uploadDate |-> DateToJSON(doc.uploadDate) ]

DocsToJSON(docs) == [ i \in 1..Len(docs) |-> DocToJSON(docs[i]) ]

\* DocumentStorage.getDocuments
getDocuments(ls) ==
  LET stored == ls[STORAGE_KEY] IN
    IF ~stored.set THEN << >>
    ELSE IF stored.ok
      THEN [ i \in 1..Len(stored.json) |->
               [ stored.json[i] EXCEPT !.uploadDate = NewDate(@) ] ]
      ELSE << >>

\* DocumentStorage.getFolders
getFolders(ls) ==
  LET stored == ls[FOLDERS_KEY] IN
    IF ~stored.set THEN << "General" >>
    ELSE IF stored.ok THEN stored.json ELSE << "General" >>

\* DocumentStorage.saveDocument
saveDocument(ls, document) ==
  [ ls EXCEPT ![STORAGE_KEY] =
      JSONstringify(DocsToJSON(Append(getDocuments(ls), document))) ]

\* DocumentStorage.deleteDocument
deleteDocument(ls, id) ==
  [ ls EXCEPT ![STORAGE_KEY] =
      JSONstringify(DocsToJSON(
        SelectSeq(getDocuments(ls), LAMBDA doc : doc.id # id))) ]

\* DocumentStorage.createFolder
createFolder(ls, folderName) ==
  IF folderName \notin Range(getFolders(ls))
    THEN [ ls EXCEPT ![FOLDERS_KEY] =
             JSONstringify(Append(getFolders(ls), folderName)) ]
    ELSE ls

\* a variant of deleteFolder that removes the folder and leaves its documents
deleteFolderOnly(ls, folderName) ==
  IF folderName = "General" THEN ls
  ELSE [ ls EXCEPT ![FOLDERS_KEY] =
           JSONstringify(SelectSeq(getFolders(ls), LAMBDA f : f # folderName)) ]

\* DocumentStorage.deleteFolder
deleteFolder(ls, folderName) ==
  IF folderName = "General" THEN ls
  ELSE LET folders == SelectSeq(getFolders(ls), LAMBDA f : f # folderName)
           written == [ ls EXCEPT ![FOLDERS_KEY] = JSONstringify(folders) ]
           read == getDocuments(written)
           documents ==
             [ i \in 1..Len(read) |->
                 [ read[i] EXCEPT
                     !.folder = IF @ = folderName THEN "General" ELSE @ ] ]
       IN  [ written EXCEPT ![STORAGE_KEY] = JSONstringify(DocsToJSON(documents)) ]

\* the documents of folderName: DocumentStorage.getDocumentsByFolder
getDocumentsByFolder(ls, folderName) ==
  SelectSeq(getDocuments(ls), LAMBDA doc : doc.folder = folderName)

\* a step of the document views: what it leaves in localStorage
StorageStep(name, note, ls) ==
  /\ localStorage' = ls
  /\ lastOp' = OpNote(name, note)
  /\ UNCHANGED <<canvasVars, providerVars, chat, timers, authVars>>

\* DocumentUpload.uploadDocuments, for one file, into the selected folder
UploadDocument(id, folder, now) ==
  /\ id \in DocIds
  /\ folder \in FolderNames
  /\ now \in UploadDates
  /\ Len(getDocuments(localStorage)) < MaxDocs
  /\ \A i \in 1..Len(getDocuments(localStorage)) :
       getDocuments(localStorage)[i].id # id
  /\ StorageStep("saveDocument", 0,
       saveDocument(localStorage,
                    [ id |-> id, folder |-> folder, uploadDate |-> NewDate(now) ]))

\* DocumentViewer.deleteDocument, from the card of a document
ViewerDeleteDocument(id) ==
  /\ \E i \in 1..Len(getDocuments(localStorage)) :
       getDocuments(localStorage)[i].id = id
  /\ StorageStep("deleteDocument", 0, deleteDocument(localStorage, id))

\* DocumentViewer.createFolder and DocumentUpload.createNewFolder
ViewerCreateFolder(folderName) ==
  /\ folderName \in FolderNames
  /\ StorageStep("createFolder", 0, createFolder(localStorage, folderName))

\* DocumentViewer.deleteFolder; the count is that of the documents of the folder
ViewerDeleteFolder(folderName) ==
  /\ folderName \in FolderNames
  /\ StorageStep("deleteFolder",
                 Len(getDocumentsByFolder(localStorage, folderName)),
                 deleteFolder(localStorage, folderName))

----------------------------------------------------------------------------
(* ChatInterface: the chat panel and the timers of its simulated replies.  *)
(* Its host mounts it and unmounts it (Hide Chat / Show Chat on the Index  *)
(* page, the Chat and Mind Map tabs of the dashboard); a mount starts from *)
(* the useState initial values, and a timer set by an instance that has    *)
(* been unmounted since calls the setters of that instance, which do       *)
(* nothing.                                                                *)

\* the greeting the messages state starts with
Welcome == [ type |-> "ai", content |-> <<"W", "e", "l", "c", "o", "m", "e">> ]

\* the useState initial values of the instance mounted as the inst-th
ChatMounted(inst) ==
  [ inst |-> inst, mounted |-> TRUE, messages |-> << Welcome >>,
    inputMessage |-> EmptyText, isLoading |-> FALSE ]

\* no ChatInterface is mounted: its state is gone
ChatUnmounted(inst) ==
  [ inst |-> inst, mounted |-> FALSE, messages |-> << >>,
    inputMessage |-> EmptyText, isLoading |-> FALSE ]

\* generateAIResponse(inputMessage, ..): a text made from the user's input
generateAIResponse(userInput) == <<"R", "e", ":">> \o userInput

\* a step of the chat panel
ChatStep(name, c, ts) ==
  /\ chat' = c
  /\ timers' = ts
  /\ lastOp' = OpNote(name, 0)
  /\ UNCHANGED <<canvasVars, providerVars, localStorage, authVars>>

\* onChange of the input, which is disabled while isLoading
ChangeInputMessage(text) ==
  /\ chat.mounted
  /\ ~chat.isLoading
  /\ text \in TypedTexts
  /\ ChatStep("changeInputMessage", [ chat EXCEPT !.inputMessage = text ], timers)

\* handleSendMessage, from Enter in the input (disabled while isLoading) or
\* from the send button (disabled while isLoading or on a blank input)
handleSendMessage ==
  /\ chat.mounted
  /\ ~chat.isLoading
  /\ IF Trim(chat.inputMessage) = EmptyText
       THEN ChatStep("handleSendMessage", chat, timers)
       ELSE /\ Len(chat.messages) < MaxMessages
            /\ ChatStep("handleSendMessage",
                 [ chat EXCEPT
                     !.messages = Append(@, [ type |-> "user",
                                              content |-> chat.inputMessage ]),
                     !.inputMessage = EmptyText,
                     !.isLoading = TRUE ],
                 timers \cup { [ inst |-> chat.inst,
                                 at |-> Len(chat.messages) + 1,
                                 input |-> chat.inputMessage ] })

\* the callback of setTimeout(.., 1000 + Math.random() * 2000)
TimerFires(t) ==
  /\ t \in timers
  /\ ChatStep("timerFires",
       IF chat.mounted /\ chat.inst = t.inst
         THEN [ chat EXCEPT
                  !.messages = Append(@, [ type |-> "ai",
                                           content |-> generateAIResponse(t.input) ]),
                  !.isLoading = FALSE ]
         ELSE chat,
       timers \ {t})

\* Hide Chat on the Index page, the Mind Map tab of the dashboard
HideChat ==
  /\ chat.mounted
  /\ ChatStep("hideChat", ChatUnmounted(chat.inst), timers)

\* Show Chat on the Index page, the Chat tab of the dashboard
ShowChat ==
  /\ ~chat.mounted
  /\ chat.inst < MaxMounts
  /\ ChatStep("showChat", ChatMounted(chat.inst + 1), timers)

----------------------------------------------------------------------------
(* AuthProvider and the token HttpService holds *)

\* the addresses login is called with
Emails == { "admin@example.com", "demo@example.com" }

\* the passwords login is called with: none, or the one of the demo
Passwords == { "", "password123" }

\* the arguments of a login call: <<email, password>>
Credentials == Emails \X Passwords

\* the token of the mock login response: `mock-jwt-token-${Date.now()}`
Token(now) == "mock-jwt-token-" \o ToString(now)

\* the user of the mock login response
MockUser(email) ==
  [ id    |-> "user-1",
    email |-> email,
    name  |-> IF email = "admin@example.com" THEN "Admin User" ELSE "Demo User" ]

\* the useState fields of AuthProvider in its first render; mounted tells
\* whether its mount effect has run
AuthState ==
  [ user |-> NoUser, token |-> NoToken, isLoading |-> TRUE, mounted |-> FALSE ]

\* no login call awaits its response
NoLogins == [ c \in Credentials |-> 0 ]

\* how many login calls await their response
PendingLogins ==
  Cardinality({ ci \in Credentials \X (1..MaxLogins) : ci[2] <= logins[ci[1]] })

\* no AuthProvider is mounted
NoAuth ==
  /\ auth = AuthState
  /\ authToken = NoToken
  /\ logins = NoLogins

\* a step of AuthProvider: the state it sets, the token HttpService is
\* given and what it leaves in localStorage
AuthStep(name, a, tok, ls) ==
  /\ auth' = a
  /\ authToken' = tok
  /\ localStorage' = ls
  /\ lastOp' = OpNote(name, 0)
  /\ UNCHANGED <<providerVars, chat, timers, variant, host, addThrows, cy,
                 hcy, selectedNode, isEditing, editText, isConnecting,
                 firstNode, isDragging, dragStart, dragEnd, hIsConnecting,
                 hFirstNode, hIsDragging, hDragStart, hostSelected>>

\* the mount effect of AuthProvider
AuthMountEffect ==
  /\ ~auth.mounted
  /\ LET storedToken == localStorage["auth_token"]
         storedUser  == localStorage["auth_user"]
         done        == [ auth EXCEPT !.isLoading = FALSE, !.mounted = TRUE ]
     IN  IF storedToken.set /\ storedUser.set
           THEN IF storedUser.ok
                  THEN AuthStep("authMountEffect",
                         [ done EXCEPT !.token = storedToken.json,
                                       !.user  = storedUser.json ],
                         storedToken.json, localStorage)
                  \* setToken has run when JSON.parse throws
                  ELSE AuthStep("authMountEffect",
                         [ done EXCEPT !.token = storedToken.json ],
                         authToken,
                         [ localStorage EXCEPT !["auth_token"] = Missing,
                                               !["auth_user"]  = Missing ])
           ELSE AuthStep("authMountEffect", done, authToken, localStorage)
  /\ UNCHANGED <<logins, clock>>

\* login, up to its await
Login(email, password) ==
  /\ auth.mounted
  /\ PendingLogins < MaxLogins
  /\ logins' = [ logins EXCEPT ![<<email, password>>] = @ + 1 ]
  /\ AuthStep("login", [ auth EXCEPT !.isLoading = TRUE ], authToken,
              localStorage)
  /\ UNCHANGED clock

\* login, from the rejection of httpService.login on: the mock throws
\* 'Email and password are required'
LoginRejects(email, password) ==
  /\ logins[<<email, password>>] > 0
  /\ email = "" \/ password = ""
  /\ logins' = [ logins EXCEPT ![<<email, password>>] = @ - 1 ]
  /\ AuthStep("loginRejects", [ auth EXCEPT !.isLoading = FALSE ], authToken,
              localStorage)
  /\ UNCHANGED clock

\* login, from the response of httpService.login on
LoginResolves(email, password, now) ==
  /\ logins[<<email, password>>] > 0
  /\ email # "" /\ password # ""
  /\ logins' = [ logins EXCEPT ![<<email, password>>] = @ - 1 ]
  /\ clock' = now
  /\ AuthStep("loginResolves",
       [ auth EXCEPT !.token = Token(now), !.user = MockUser(email),
                     !.isLoading = FALSE ],
       Token(now),
       [ localStorage EXCEPT
           !["auth_token"] = Text(Token(now)),
           !["auth_user"]  = JSONstringify(MockUser(email)) ])

\* logout
Logout ==
  /\ auth.mounted
  /\ AuthStep("logout",
       [ auth EXCEPT !.token = NoToken, !.user = NoUser ],
       NoToken,
       [ localStorage EXCEPT !["auth_token"] = Missing,
                             !["auth_user"]  = Missing ])
  /\ UNCHANGED <<logins, clock>>

\* the page is loaded again: the module and the provider start afresh and
\* the responses of the page before are dropped, localStorage stays
Reload ==
  /\ auth.mounted
  /\ logins' = NoLogins
  /\ AuthStep("reload", AuthState, NoToken, localStorage)
  /\ UNCHANGED clock

----------------------------------------------------------------------------
(* Initial state: mounted, the effect has run once in the first render *)

Init ==
  /\ variant \in {"twoclick", "drag"}
  /\ host \in {"none", "index"}
  /\ addThrows \in BOOLEAN
  /\ cy = SeedGraph
  /\ hcy = <<>>
  /\ selectedNode = NoNode
  /\ isEditing = FALSE
  /\ editText = EmptyText
  /\ isConnecting = FALSE
  /\ firstNode = NoNode
  /\ isDragging = FALSE
  /\ dragStart = NoId
  /\ dragEnd = 0
  /\ hIsConnecting = FALSE
  /\ hFirstNode = NoNode
  /\ hIsDragging = FALSE
  /\ hDragStart = NoId
  /\ hostSelected = NoNode
  /\ clock = 0
  /\ lastOp = Mounted
  /\ provider = ProviderState
  /\ pending = {}
  /\ calls = 0
  /\ mockChats = [ p \in Range(MockProjects) |-> MockChats(p) ]
  /\ localStorage = [ key \in StorageKeys |-> Missing ]
  /\ chat = ChatUnmounted(0)
  /\ timers = {}
  /\ NoAuth

\* the edit modal covers the canvas and the toolbar while it is shown
CanvasReachable == ~isEditing

----------------------------------------------------------------------------
(* Two-click variant: the listeners of the effect *)

\* cytoscapeInstance.on('tap', 'node', ..)
TapNodeConnect(n) ==
  /\ variant = "twoclick"
  /\ CanvasReachable
  /\ n \in cy.nodes
  /\ lastOp' = OpErr("tapNode", n,
                     /\ hIsConnecting /\ ~IsNull(hFirstNode) /\ hFirstNode.id # n
                     /\ ListenerFindsEdge(hcy, hFirstNode.id, n),
                     /\ hIsConnecting /\ ~IsNull(hFirstNode) /\ hFirstNode.id # n
                     /\ ListenerRefused(hcy, hFirstNode.id, n))
  /\ UNCHANGED <<outerVars, variant, host, addThrows, isEditing, editText, clock>>
  /\ LET nodeData == NodeData(cy, n) IN
     IF hIsConnecting
       THEN IF IsNull(hFirstNode)
              THEN \* first node of the connection
                   Commit(cy, hcy, nodeData, nodeData, isConnecting,
                          isDragging, dragStart, dragEnd, HostAfter(nodeData),
                          DepsChanged(HostRenders(nodeData), isDragging, FALSE))
              ELSE IF hFirstNode.id # n
                     THEN IF addThrows /\ ListenerRefused(hcy, hFirstNode.id, n)
                     THEN \* cy.add threw: the setters after it did not run
                          Commit(cy, hcy, selectedNode, firstNode, isConnecting,
                                 isDragging, dragStart, dragEnd, hostSelected, FALSE)
                     ELSE \* second node: create the edge
                          Commit(cy, ListenerCreateEdge(hcy, hFirstNode.id, n),
                                 nodeData, NoNode, FALSE,
                                 isDragging, dragStart, dragEnd, HostAfter(nodeData),
                                 DepsChanged(HostRenders(nodeData), isDragging, FALSE))
                     ELSE \* the first node again: nothing is set
                          Commit(cy, hcy, selectedNode, firstNode, isConnecting,
                                 isDragging, dragStart, dragEnd, hostSelected, FALSE)
       ELSE Commit(cy, hcy, nodeData, firstNode, isConnecting,
                   isDragging, dragStart, dragEnd, HostAfter(nodeData),
                   DepsChanged(HostRenders(nodeData), isDragging, FALSE))

\* cytoscapeInstance.on('tap', ..) with evt.target === cytoscapeInstance
TapBackgroundConnect ==
  /\ variant = "twoclick"
  /\ CanvasReachable
  /\ lastOp' = Op("tapBackground", NoId, FALSE)
  /\ UNCHANGED <<outerVars, variant, host, addThrows, isEditing, editText, clock>>
  /\ IF hIsConnecting
       THEN Commit(cy, hcy, NoNode, NoNode, FALSE,
                   isDragging, dragStart, dragEnd, HostAfter(NoNode),
                   DepsChanged(HostRenders(NoNode), isDragging, FALSE))
       ELSE Commit(cy, hcy, NoNode, firstNode, isConnecting,
                   isDragging, dragStart, dragEnd, HostAfter(NoNode),
                   DepsChanged(HostRenders(NoNode), isDragging, FALSE))

\* the Connect button, disabled while isConnecting
startConnecting ==
  /\ variant = "twoclick"
  /\ CanvasReachable
  /\ ~isConnecting
  /\ lastOp' = Op("startConnecting", NoId, FALSE)
  /\ UNCHANGED <<outerVars, variant, host, addThrows, isEditing, editText, clock>>
  /\ Commit(cy, hcy, NoNode, NoNode, TRUE,
            isDragging, dragStart, dragEnd, HostAfter(NoNode),
            DepsChanged(HostRenders(NoNode), isDragging, FALSE))

\* the Cancel button of the connection banner (z-10: above the edit modal)
cancelConnecting ==
  /\ variant = "twoclick"
  /\ isConnecting
  /\ lastOp' = Op("cancelConnecting", NoId, FALSE)
  /\ UNCHANGED <<outerVars, variant, host, addThrows, isEditing, editText, clock>>
  /\ Commit(cy, hcy, selectedNode, NoNode, FALSE,
            isDragging, dragStart, dragEnd, hostSelected, FALSE)

----------------------------------------------------------------------------
(* Drag variant: the listeners of the effect *)

\* cytoscapeInstance.on('tap', 'node', ..)
TapNodeDrag(n) ==
  /\ variant = "drag"
  /\ CanvasReachable
  /\ n \in cy.nodes
  /\ lastOp' = Op("tapNode", n, FALSE)
  /\ UNCHANGED <<outerVars, variant, host, addThrows, isEditing, editText, clock>>
  /\ LET nodeData == NodeData(cy, n) IN
     IF ~hIsDragging
       THEN Commit(cy, hcy, nodeData, firstNode, isConnecting,
                   isDragging, dragStart, dragEnd, HostAfter(nodeData),
                   DepsChanged(HostRenders(nodeData), isDragging, FALSE))
       ELSE Commit(cy, hcy, selectedNode, firstNode, isConnecting,
                   isDragging, dragStart, dragEnd, hostSelected, FALSE)

\* cytoscapeInstance.on('tap', ..) with evt.target === cytoscapeInstance
TapBackgroundDrag ==
  /\ variant = "drag"
  /\ CanvasReachable
  /\ lastOp' = Op("tapBackground", NoId, FALSE)
  /\ UNCHANGED <<outerVars, variant, host, addThrows, isEditing, editText, clock>>
  /\ IF ~hIsDragging
       THEN Commit(cy, hcy, NoNode, firstNode, isConnecting,
                   isDragging, dragStart, dragEnd, HostAfter(NoNode),
                   DepsChanged(HostRenders(NoNode), isDragging, FALSE))
       ELSE Commit(cy, hcy, selectedNode, firstNode, isConnecting,
                   isDragging, dragStart, dragEnd, hostSelected, FALSE)

\* cytoscapeInstance.on('mousedown', 'node', ..): dragStart is a new object
MouseDownNode(n) ==
  /\ variant = "drag"
  /\ CanvasReachable
  /\ n \in cy.nodes
  /\ lastOp' = Op("mouseDownNode", n, FALSE)
  /\ UNCHANGED <<outerVars, variant, host, addThrows, isEditing, editText, clock>>
  /\ Commit(cy, hcy, selectedNode, firstNode, isConnecting,
            TRUE, n, 1, hostSelected, DepsChanged(FALSE, TRUE, TRUE))

\* cytoscapeInstance.on('mousemove', ..)
MouseMove ==
  /\ variant = "drag"
  /\ CanvasReachable
  /\ lastOp' = Op("mouseMove", NoId, FALSE)
  /\ UNCHANGED <<outerVars, variant, host, addThrows, isEditing, editText, clock>>
  /\ IF hIsDragging /\ hDragStart # NoId
       THEN Commit(cy, hcy, selectedNode, firstNode, isConnecting,
                   isDragging, dragStart, 1, hostSelected, FALSE)
       ELSE Commit(cy, hcy, selectedNode, firstNode, isConnecting,
                   isDragging, dragStart, dragEnd, hostSelected, FALSE)

\* cytoscapeInstance.on('mouseup', 'node', ..), with resetDragState
MouseUpNode(n) ==
  /\ variant = "drag"
  /\ CanvasReachable
  /\ n \in cy.nodes
  /\ lastOp' = OpErr("mouseUpNode", n,
                     /\ hIsDragging /\ hDragStart # NoId /\ hDragStart # n
                     /\ ListenerFindsEdge(hcy, hDragStart, n),
                     /\ hIsDragging /\ hDragStart # NoId /\ hDragStart # n
                     /\ ListenerRefused(hcy, hDragStart, n))
  /\ UNCHANGED <<outerVars, variant, host, addThrows, isEditing, editText, clock>>
  /\ IF /\ hIsDragging /\ hDragStart # NoId /\ hDragStart # n
        /\ addThrows /\ ListenerRefused(hcy, hDragStart, n)
       THEN \* cy.add threw: resetDragState did not run
            Commit(cy, hcy, selectedNode, firstNode, isConnecting,
                   isDragging, dragStart, dragEnd, hostSelected, FALSE)
       ELSE IF hIsDragging /\ hDragStart # NoId
       THEN Commit(cy,
                   IF hDragStart # n
                     THEN ListenerCreateEdge(hcy, hDragStart, n) ELSE hcy,
                   selectedNode, firstNode, isConnecting,
                   FALSE, NoId, 0, hostSelected,
                   DepsChanged(FALSE, FALSE, dragStart # NoId))
       ELSE Commit(cy, hcy, selectedNode, firstNode, isConnecting,
                   isDragging, dragStart, dragEnd, hostSelected, FALSE)

\* cytoscapeInstance.on('mouseup', ..) with evt.target === cytoscapeInstance
MouseUpBackground ==
  /\ variant = "drag"
  /\ CanvasReachable
  /\ lastOp' = Op("mouseUpBackground", NoId, FALSE)
  /\ UNCHANGED <<outerVars, variant, host, addThrows, isEditing, editText, clock>>
  /\ IF hIsDragging
       THEN Commit(cy, hcy, selectedNode, firstNode, isConnecting,
                   FALSE, NoId, 0, hostSelected,
                   DepsChanged(FALSE, FALSE, dragStart # NoId))
       ELSE Commit(cy, hcy, selectedNode, firstNode, isConnecting,
                   isDragging, dragStart, dragEnd, hostSelected, FALSE)

----------------------------------------------------------------------------
(* Toolbar and edit modal: handlers of the latest render *)

\* whether addNode connects the new node to the selection
AutoConnects ==
  /\ ~IsNull(selectedNode)
  /\ IF variant = "twoclick" THEN ~isConnecting ELSE ~isDragging

\* now is what Date.now() returns: the clock does not run backwards, and it
\* need not have advanced since the last call
addNode(type, now) ==
  /\ CanvasReachable
  /\ type \in NodeTypes
  /\ now \in clock..MaxClock
  /\ clock' = now
  /\ UNCHANGED <<outerVars, variant, host, addThrows, isEditing, editText>>
  /\ LET nodeId == NodeId(now)
         added  == CyAddNode(cy, nodeId, NewLabel, type)
         threw  == addThrows /\ CyRefusesNode(cy, nodeId)
         joins  == AutoConnects /\ ~threw
     IN  /\ lastOp' = OpErr("addNode", nodeId,
                            /\ joins
                            /\ CyEdgesBetween(added, selectedNode.id, nodeId) # {},
                            /\ joins
                            /\ createEdgeRefused(added, selectedNode.id, nodeId))
         /\ Commit(IF joins
                     THEN createEdge(added, selectedNode.id, nodeId) ELSE added,
                   hcy, selectedNode, firstNode, isConnecting,
                   isDragging, dragStart, dragEnd, hostSelected, FALSE)

\* the Edit and Delete buttons are rendered
SelectionButtons ==
  /\ CanvasReachable
  /\ ~IsNull(selectedNode)
  /\ variant = "drag" => ~isDragging

deleteSelected ==
  /\ SelectionButtons
  /\ lastOp' = Op("deleteSelected", NoId, FALSE)
  /\ UNCHANGED <<outerVars, variant, host, addThrows, isEditing, editText, clock>>
  /\ LET id == selectedNode.id IN
     Render(CyRemove(cy, id), hcy, NoNode,
            RefAfterRemove(firstNode, id), RefAfterRemove(hFirstNode, id),
            isConnecting, isDragging, dragStart, dragEnd,
            HostAfter(NoNode),
            DepsChanged(HostRenders(NoNode), isDragging, FALSE))

startEditing ==
  /\ SelectionButtons
  /\ lastOp' = Op("startEditing", NoId, FALSE)
  /\ editText' = selectedNode.label
  /\ isEditing' = TRUE
  /\ UNCHANGED <<outerVars, variant, host, addThrows, clock>>
  /\ Commit(cy, hcy, selectedNode, firstNode, isConnecting,
            isDragging, dragStart, dragEnd, hostSelected, FALSE)

\* onChange of the modal's input
ChangeEditText(t) ==
  /\ isEditing
  /\ t \in TypedTexts
  /\ lastOp' = Op("changeEditText", NoId, FALSE)
  /\ editText' = t
  /\ UNCHANGED <<outerVars, variant, host, addThrows, isEditing, clock>>
  /\ Commit(cy, hcy, selectedNode, firstNode, isConnecting,
            isDragging, dragStart, dragEnd, hostSelected, FALSE)

\* Enter in the modal's input, or its Save button
saveEdit ==
  /\ isEditing
  /\ lastOp' = Op("saveEdit", NoId, FALSE)
  /\ UNCHANGED <<outerVars, variant, host, addThrows, clock>>
  /\ IF IsNull(selectedNode) \/ Trim(editText) = EmptyText
       THEN /\ UNCHANGED <<isEditing, editText>>
            /\ Commit(cy, hcy, selectedNode, firstNode, isConnecting,
                      isDragging, dragStart, dragEnd, hostSelected, FALSE)
       ELSE LET id == selectedNode.id
                l  == Trim(editText)
            IN  /\ isEditing' = FALSE
                /\ editText' = EmptyText
                /\ Render(CySetLabel(cy, id, l), hcy,
                          [ selectedNode EXCEPT !.label = l, !.live = FALSE ],
                          RefAfterSetLabel(firstNode, id, l),
                          RefAfterSetLabel(hFirstNode, id, l),
                          isConnecting, isDragging, dragStart, dragEnd,
                          RefAfterSetLabel(hostSelected, id, l), FALSE)

\* Escape in the modal's input, or its Cancel button
cancelEdit ==
  /\ isEditing
  /\ lastOp' = Op("cancelEdit", NoId, FALSE)
  /\ isEditing' = FALSE
  /\ UNCHANGED <<outerVars, variant, host, addThrows, editText, clock>>
  /\ Commit(cy, hcy, selectedNode, firstNode, isConnecting,
            isDragging, dragStart, dragEnd, hostSelected, FALSE)

----------------------------------------------------------------------------
(* The environment *)

\* Index renders for a reason of its own (Hide Chat / Show Chat)
HostRender ==
  /\ host = "index"
  /\ lastOp' = Op("hostRender", NoId, FALSE)
  /\ UNCHANGED <<outerVars, variant, host, addThrows, isEditing, editText, clock>>
  /\ Commit(cy, hcy, selectedNode, firstNode, isConnecting,
            isDragging, dragStart, dragEnd, hostSelected,
            DepsChanged(TRUE, isDragging, FALSE))

\* the listeners of the two-click variant, and its Connect and Cancel
TwoClickEvents ==
  \/ \E n \in cy.nodes : TapNodeConnect(n)
  \/ TapBackgroundConnect
  \/ startConnecting
  \/ cancelConnecting

\* the listeners of the drag variant
DragEvents ==
  \/ \E n \in cy.nodes : TapNodeDrag(n)
  \/ TapBackgroundDrag
  \/ \E n \in cy.nodes : MouseDownNode(n)
  \/ MouseMove
  \/ \E n \in cy.nodes : MouseUpNode(n)
  \/ MouseUpBackground

\* what both variants share: toolbar, edit modal, host
CommonEvents ==
  \/ \E type \in NodeTypes, now \in clock..MaxClock : addNode(type, now)
  \/ deleteSelected
  \/ startEditing
  \/ \E t \in TypedTexts : ChangeEditText(t)
  \/ saveEdit
  \/ cancelEdit
  \/ HostRender

Next == TwoClickEvents \/ DragEvents \/ CommonEvents

NextTwoClick == TwoClickEvents \/ CommonEvents

NextDrag == DragEvents \/ CommonEvents

\* both variants, both hosts
Spec == Init /\ [][Next]_vars

\* the two-click variant alone, under both hosts
InitTwoClick == Init /\ variant = "twoclick"

SpecTwoClick == InitTwoClick /\ [][NextTwoClick]_vars

\* the drag variant alone, under both hosts
InitDrag == Init /\ variant = "drag"

SpecDrag == InitDrag /\ [][NextDrag]_vars

\* the responses of the mock backend and the clicks on the dashboard
ProviderEvents ==
  \/ \E t \in pending : GetProjectsResolves(t)
  \/ \E t \in pending : GetChatsResolves(t)
  \/ \E t \in pending : GetMessagesResolves(t)
  \/ \E projectId \in Range(provider.projects) : ClickProject(projectId)
  \/ \E chatId \in Range(provider.chats) : ClickChat(chatId)
  \/ ClickCreateChat
  \/ \E t \in pending, now \in clock..MaxClock : CreateChatResolves(t, now)

\* ProjectProvider alone, from its mount
InitProvider ==
  /\ ProviderMounted
  /\ variant = "none"
  /\ host = "none"
  /\ addThrows = FALSE
  /\ cy = SeedGraph
  /\ hcy = <<>>
  /\ selectedNode = NoNode
  /\ isEditing = FALSE
  /\ editText = EmptyText
  /\ isConnecting = FALSE
  /\ firstNode = NoNode
  /\ isDragging = FALSE
  /\ dragStart = NoId
  /\ dragEnd = 0
  /\ hIsConnecting = FALSE
  /\ hFirstNode = NoNode
  /\ hIsDragging = FALSE
  /\ hDragStart = NoId
  /\ hostSelected = NoNode
  /\ clock = 0
  /\ lastOp = Mounted
  /\ localStorage = [ key \in StorageKeys |-> Missing ]
  /\ chat = ChatUnmounted(0)
  /\ timers = {}
  /\ NoAuth

SpecProvider == InitProvider /\ [][ProviderEvents]_vars

\* no canvas is mounted
NoCanvas ==
  /\ variant = "none"
  /\ host = "none"
  /\ addThrows = FALSE
  /\ cy = SeedGraph
  /\ hcy = <<>>
  /\ selectedNode = NoNode
  /\ isEditing = FALSE
  /\ editText = EmptyText
  /\ isConnecting = FALSE
  /\ firstNode = NoNode
  /\ isDragging = FALSE
  /\ dragStart = NoId
  /\ dragEnd = 0
  /\ hIsConnecting = FALSE
  /\ hFirstNode = NoNode
  /\ hIsDragging = FALSE
  /\ hDragStart = NoId
  /\ hostSelected = NoNode
  /\ clock = 0
  /\ lastOp = Mounted

\* no ProjectProvider is mounted
NoProvider ==
  /\ provider = ProviderState
  /\ pending = {}
  /\ calls = 0
  /\ mockChats = [ p \in Range(MockProjects) |-> MockChats(p) ]

\* the uploads and the clicks in the document views
DocumentEvents ==
  \/ \E id \in DocIds, folder \in FolderNames, now \in UploadDates :
       UploadDocument(id, folder, now)
  \/ \E id \in DocIds : ViewerDeleteDocument(id)
  \/ \E folderName \in FolderNames : ViewerCreateFolder(folderName)
  \/ \E folderName \in FolderNames : ViewerDeleteFolder(folderName)

\* DocumentStorage alone, over a localStorage that holds nothing under its
\* keys or a text that is no JSON
InitDocuments ==
  /\ NoCanvas
  /\ NoProvider
  /\ localStorage \in [ StorageKeys -> { Missing, Unparsable } ]
  /\ \A key \in AuthKeys : localStorage[key] = Missing
  /\ chat = ChatUnmounted(0)
  /\ timers = {}
  /\ NoAuth

SpecDocuments == InitDocuments /\ [][DocumentEvents]_vars

\* what the user does in the chat panel and with it, and the timers
ChatEvents ==
  \/ \E text \in TypedTexts : ChangeInputMessage(text)
  \/ handleSendMessage
  \/ \E t \in timers : TimerFires(t)
  \/ HideChat
  \/ ShowChat

\* ChatInterface alone, from its first mount
InitChat ==
  /\ NoCanvas
  /\ NoProvider
  /\ localStorage = [ key \in StorageKeys |-> Missing ]
  /\ chat = ChatMounted(1)
  /\ timers = {}
  /\ NoAuth

SpecChat == InitChat /\ [][ChatEvents]_vars

\* what the user does with the session, and the login responses
AuthEvents ==
  \/ AuthMountEffect
  \/ \E email \in Emails, password \in Passwords : Login(email, password)
  \/ \E email \in Emails, password \in Passwords :
       LoginRejects(email, password)
  \/ \E email \in Emails, password \in Passwords, now \in clock..MaxClock :
       LoginResolves(email, password, now)
  \/ Logout
  \/ Reload

\* what localStorage holds under the keys of AuthProvider when the page is
\* loaded: nothing, a session, or a token with user data that is no JSON
StoredSessions ==
  { [ key \in AuthKeys |-> Missing ] }
    \cup { [ key \in AuthKeys |->
               IF key = "auth_token" THEN Text(Token(0)) ELSE stored ] :
             stored \in { Unparsable }
                          \cup { JSONstringify(MockUser(email)) : email \in Emails } }

\* AuthProvider alone, in its first render
InitAuth ==
  /\ NoCanvas
  /\ NoProvider
  /\ \E session \in StoredSessions :
       localStorage = [ key \in StorageKeys |->
                          IF key \in AuthKeys THEN session[key] ELSE Missing ]
  /\ chat = ChatUnmounted(0)
  /\ timers = {}
  /\ NoAuth

SpecAuth == InitAuth /\ [][AuthEvents]_vars

----------------------------------------------------------------------------
(* Sanity of the model's own bookkeeping *)

\* the instances the component can still reach
HeldInstances == { Elements(cy) } \cup (IF hcy = <<>> THEN {} ELSE { hcy[1] })

IsBlank(s) == \A i \in 1..Len(s) : s[i] = " "

Incident(g, n) == { e \in g.edges : e.source = n \/ e.target = n }

HeldValues == { selectedNode, firstNode, hFirstNode, hostSelected }

\* a live value is the data object of a node of the displayed instance
LiveValuesAreCurrent ==
  \A r \in HeldValues :
    r.live => r.id \in cy.nodes /\ r.label = cy.label[r.id] /\ r.type = cy.type[r.id]

----------------------------------------------------------------------------
(* Claims *)

AtMostOneEdge(g) ==
  \A e1 \in g.edges : \A e2 \in g.edges :
    {e1.source, e1.target} = {e2.source, e2.target} => e1 = e2

\* C1: in every reachable state of either variant, any two nodes are
\* connected by at most one edge, whatever its direction.
C1_OneEdgePerPair == \A g \in HeldInstances : AtMostOneEdge(g)

\* C1 witness: addNode called createEdge on a pair that an edge connected
\* already, and the call returned without inserting.
C1_Witness ==
  /\ lastOp.op = "addNode"
  /\ lastOp.dup
  /\ cy.edges # {}

\* C2: on any instance the canvas holds, for distinct nodes A and B with no
\* edge between them, createEdge(A, B) inserts exactly one edge, and a second
\* createEdge(A, B) or createEdge(B, A) changes nothing.
C2_CreateEdgeTwice ==
  \A g \in HeldInstances : \A A \in g.nodes : \A B \in g.nodes :
    (A # B /\ CyEdgesBetween(g, A, B) = {}) =>
      LET once == createEdge(g, A, B) IN
        /\ Cardinality(CyEdgesBetween(once, A, B)) = 1
        /\ once.edges \ g.edges = CyEdgesBetween(once, A, B)
        /\ g.edges \subseteq once.edges
        /\ createEdge(once, A, B) = once
        /\ createEdge(once, B, A) = once

\* C2 witness: a listener called createEdge on a pair of distinct nodes of
\* its instance that an edge connected already.
C2_Witness ==
  /\ lastOp.op = "mouseUpNode"
  /\ lastOp.dup

\* C3: no reachable state holds an edge whose source is its target.
C3_NoSelfLoop == \A e \in cy.edges : e.source # e.target

\* C4: a Delete of the selected node N leaves the graph without N and
\* without the edges at N, and with every other node, label, type and edge
\* as it was.
C4_DeleteCascade ==
  [][ lastOp'.op = "deleteSelected" =>
        LET N == selectedNode.id IN
          /\ N \notin cy'.nodes
          /\ Incident(cy', N) = {}
          /\ cy'.nodes = cy.nodes \ {N}
          /\ \A n \in cy'.nodes : cy'.label[n] = cy.label[n] /\ cy'.type[n] = cy.type[n]
          /\ cy'.edges = cy.edges \ Incident(cy, N) ]_vars

\* C5: saveEdit with an empty or all-blank text commits nothing: the graph
\* and selectedNode are as before and the editor stays open.
C5_BlankEditRejected ==
  [][ (lastOp'.op = "saveEdit" /\ IsBlank(editText)) =>
        /\ cy' = cy
        /\ selectedNode' = selectedNode
        /\ isEditing'
        /\ editText' = editText ]_vars

\* C5 witness: saveEdit has just run on a text of blanks only, and the
\* editor is still open on it.
C5_Witness ==
  /\ lastOp.op = "saveEdit"
  /\ isEditing
  /\ editText # EmptyText
  /\ IsBlank(editText)

\* the tap listener, on a tap of n, calls createEdge from the first node it
\* holds and the call inserts an edge into the instance it holds
TapCreatesEdge(n) ==
  /\ hIsConnecting
  /\ ~IsNull(hFirstNode)
  /\ hFirstNode.id # n
  /\ ListenerCreateEdge(hcy, hFirstNode.id, n) # hcy

\* C6: in the two-click variant, Connect, the taps made while connecting, and
\* the abort (a tap on the background or Cancel) leave the number of edges
\* as it was; the abort leaves firstNode null; and a tap inserts an edge from
\* a first node only while that node is the firstNode of a connection.
C6_AbortedConnection ==
  [][ /\ ( \/ lastOp'.op \in {"startConnecting", "cancelConnecting"}
           \/ (isConnecting /\ lastOp'.op \in {"tapNode", "tapBackground"}) )
         => Cardinality(cy'.edges) = Cardinality(cy.edges)
      /\ ( \/ lastOp'.op = "cancelConnecting"
           \/ (isConnecting /\ lastOp'.op = "tapBackground") )
         => IsNull(firstNode')
      /\ \A n \in cy.nodes :
           (TapNodeConnect(n) /\ TapCreatesEdge(n))
             => (isConnecting /\ firstNode.id = hFirstNode.id) ]_vars

\* C7: from the mount, under either host: Add Node gives 2 nodes and no
\* edge; tap root and Add Node give 3 nodes and 1 edge, from root; Connect
\* and two taps on root leave 1 edge; selecting the second added node and
\* Delete give 2 nodes and no edge.
C7_Scenario ==
  LET nodes == Cardinality(cy.nodes)
      edges == Cardinality(cy.edges)
      k == lastOp.script
  IN  /\ k = 1 => (nodes = 2 /\ edges = 0)
      /\ k = 3 => (nodes = 3 /\ edges = 1 /\ \A e \in cy.edges : e.source = RootId)
      /\ k \in {4, 5, 6} => edges = 1
      /\ k = 8 => (nodes = 2 /\ edges = 0)

\* C8: saveEdit on a text that is not blank sets the label of the selected
\* node in the graph to the trimmed text, closes the editor and leaves that
\* node selected with the trimmed text as its label.
C8_EditCommits ==
  [][ (lastOp'.op = "saveEdit" /\ ~IsBlank(editText)) =>
        /\ selectedNode.id \in cy'.nodes
        /\ cy'.label[selectedNode.id] = Trim(editText)
        /\ ~isEditing'
        /\ selectedNode'.id = selectedNode.id
        /\ selectedNode'.label = Trim(editText) ]_vars

\* C9: in the two-click variant, while connecting with firstNode = A, a tap
\* on another node B leaves an edge between A and B in the displayed graph,
\* leaves connection mode, selects B and hands B to the host.
C9_SecondTapConnects ==
  [][ \A B \in cy.nodes :
        (TapNodeConnect(B) /\ isConnecting /\ ~IsNull(firstNode) /\ firstNode.id # B)
          => /\ CyEdgesBetween(cy', firstNode.id, B) # {}
             /\ ~isConnecting'
             /\ IsNull(firstNode')
             /\ selectedNode'.id = B
             /\ (host = "index" => hostSelected'.id = B) ]_vars

\* C10: under a host that passes onNodeSelect, the value it received last
\* is selectedNode: both null, or the same id, label and type.
C10_HostSeesSelection ==
  host = "index" => SameData(hostSelected, selectedNode)

\* C11: in either variant and under either host, no event but Delete makes a
\* node or an edge of the displayed graph disappear, and Delete takes away
\* the selected node and its edges only.
C11_GraphCreatedOnce ==
  [][ IF lastOp'.op = "deleteSelected"
        THEN /\ cy.nodes \ {selectedNode.id} \subseteq cy'.nodes
             /\ cy.edges \ Incident(cy, selectedNode.id) \subseteq cy'.edges
        ELSE /\ cy.nodes \subseteq cy'.nodes
             /\ cy.edges \subseteq cy'.edges ]_vars

EndpointsExist(g) ==
  \A e \in g.edges : e.source \in g.nodes /\ e.target \in g.nodes

\* C12: in every instance the canvas holds each edge joins two nodes of that
\* instance, and no handler has called createEdge with an id that is no
\* node of the instance, which cy.add answers with an error.
C12_EdgesReferenceNodes ==
  /\ \A g \in HeldInstances : EndpointsExist(g)
  /\ ~lastOp.err

\* C13: every addNode adds exactly one node, under an id that no node of the
\* graph had before the call, also when the clock has not advanced since the
\* last call.
C13_FreshNodeId ==
  [][ lastOp'.op = "addNode" =>
        /\ Cardinality(cy'.nodes) = Cardinality(cy.nodes) + 1
        /\ cy.nodes \subseteq cy'.nodes ]_vars

\* the pointer has just gone down on a node
PointerIsDown ==
  /\ lastOp.op = "mouseDownNode"
  /\ isDragging
  /\ dragStart # NoId

\* C14: in the drag variant, a pointer-down on S followed by a pointer-up
\* on another node T leaves an edge between S and T in the
\* displayed graph and clears the drag state.
C14_DragConnects ==
  [][ \A T \in cy.nodes :
        (MouseUpNode(T) /\ PointerIsDown /\ dragStart # T)
          => /\ CyEdgesBetween(cy', dragStart, T) # {}
             /\ ~isDragging'
             /\ dragStart' = NoId
             /\ dragEnd' = 0 ]_vars

\* C15: in the drag variant, the pointer-down on a node, a move after it
\* and a pointer-up after it, on the background or on the node the drag
\* started from, each leave the nodes, labels, types and edges of the displayed graph as
\* they were, and that pointer-up clears the drag state.
C15_DragAbort ==
  [][ /\ lastOp'.op = "mouseDownNode" => cy' = cy
      /\ (PointerIsDown /\ lastOp'.op = "mouseMove") => cy' = cy
      /\ ( /\ PointerIsDown
           /\ \/ lastOp'.op = "mouseUpBackground"
              \/ MouseUpNode(dragStart) )
         => /\ cy' = cy
            /\ ~isDragging'
            /\ dragStart' = NoId
            /\ dragEnd' = 0 ]_vars

\* C16: in the two-click variant, a tap on the background or a click on
\* Cancel while connecting leaves connection mode off and no node selected.
C16_AbortLeadsToIdle ==
  [][ ( /\ isConnecting
        /\ lastOp'.op \in {"tapBackground", "cancelConnecting"} )
        => (~isConnecting' /\ IsNull(selectedNode')) ]_vars

\* C17: Delete runs only while a node is selected, and leaves no node
\* selected, null with the host, and the canvas neither connecting nor
\* dragging nor editing.  (That the node is gone from the graph is C4.)
C17_DeleteLeadsToIdle ==
  [][ lastOp'.op = "deleteSelected" =>
        /\ ~IsNull(selectedNode)
        /\ IsNull(selectedNode')
        /\ (host = "index" => IsNull(hostSelected'))
        /\ ~isConnecting'
        /\ ~isDragging'
        /\ ~isEditing' ]_vars

\* C20: in the two-click variant, Connect enters connection mode with no
\* first node and no selection, and the tap on a node A that follows it
\* makes A the first node and the selected node, stays in connection mode
\* and leaves the edges as they were.
C20_ConnectThenFirstTap ==
  [][ /\ lastOp'.op = "startConnecting"
         => (isConnecting' /\ IsNull(firstNode') /\ IsNull(selectedNode'))
      /\ \A A \in cy.nodes :
           (lastOp.op = "startConnecting" /\ TapNodeConnect(A))
             => /\ firstNode'.id = A
                /\ selectedNode'.id = A
                /\ isConnecting'
                /\ cy'.edges = cy.edges ]_vars

\* the call numbered k, and what it called, has returned
Returned(k) == \A t \in pending : t.k # k

\* C18: once the loadProjects of the mount effect has returned with a list
\* of projects that is not empty, and no project was selected by a click,
\* currentProject is the first project of the list.
C18_FirstProjectSelected ==
  (Returned(0) /\ calls = 0 /\ Len(provider.projects) > 0)
    => provider.currentProject = provider.projects[1]

\* C19: when a selectProject(p) called from the dashboard returns, p having
\* chats and no other call being in flight, currentChat is the first chat of
\* p and messages is the list stored for that chat.
C19_FirstChatSelected ==
  [][ \A t \in pending :
        ( /\ pending = {t}
          /\ t.root.fn = "selectProject"
          /\ Len(getMockChats(t.root.arg)) > 0
          /\ pending' = {} )
        => /\ provider'.currentChat = getMockChats(t.root.arg)[1]
           /\ provider'.messages = MockMessages(getMockChats(t.root.arg)[1]) ]_vars

\* C21: an addNode whose id is free adds that one node, labelled "New Idea"
\* and of the requested type; it adds one edge, from the selected node to
\* the new node, exactly when a node is selected and no connection (two-click
\* variant) or drag (drag variant) is in progress, and no edge otherwise;
\* the selected node is a node the graph had before the call; the other
\* nodes, their labels and types, the other edges and the selection stay as
\* they were.
C21_AddNodeConnects ==
  [][ \A type \in NodeTypes, now \in 0..MaxClock :
        (addNode(type, now) /\ ~CyRefusesNode(cy, NodeId(now))) =>
          LET id == NodeId(now) IN
            /\ cy'.nodes = cy.nodes \cup {id}
            /\ cy'.label[id] = NewLabel
            /\ cy'.type[id] = type
            /\ \A n \in cy.nodes :
                 cy'.label[n] = cy.label[n] /\ cy'.type[n] = cy.type[n]
            /\ AutoConnects => selectedNode.id \in cy.nodes
            /\ cy.edges \subseteq cy'.edges
            /\ cy'.edges \ cy.edges =
                 IF AutoConnects
                   THEN { [ id |-> EdgeId(selectedNode.id, id),
                            source |-> selectedNode.id, target |-> id ] }
                   ELSE {}
            /\ selectedNode' = selectedNode ]_vars

DocumentIds(ls) == [ i \in 1..Len(getDocuments(ls)) |-> getDocuments(ls)[i].id ]

\* C23: deleteFolder('General') leaves the folders and the documents as they
\* were; deleteFolder(f) for another f leaves f out of the folder list and
\* 'General' in it, leaves the ids of the documents as they were, and leaves
\* each document that was in f in 'General' and each other document in its
\* folder.
C23_DeleteFolderKeepsDocuments ==
  [][ \A f \in FolderNames :
        ViewerDeleteFolder(f) =>
          LET before == getDocuments(localStorage)
              after  == getDocuments(localStorage')
          IN  IF f = "General"
                THEN /\ getFolders(localStorage') = getFolders(localStorage)
                     /\ after = before
                ELSE /\ f \notin Range(getFolders(localStorage'))
                     /\ "General" \in Range(getFolders(localStorage'))
                     /\ Range(getFolders(localStorage')) =
                          Range(getFolders(localStorage)) \ {f}
                     /\ DocumentIds(localStorage') = DocumentIds(localStorage)
                     /\ \A i \in 1..Len(before) :
                          after[i].folder =
                            IF before[i].folder = f THEN "General"
                            ELSE before[i].folder ]_vars

\* C23 witness: deleteFolder has just run on a folder other than 'General'
\* that held a document, and a second document is still in another folder.
C23_Witness ==
  /\ lastOp.op = "deleteFolder"
  /\ lastOp.note > 0
  /\ Len(getDocumentsByFolder(localStorage, "General")) = lastOp.note
  /\ \E i \in 1..Len(getDocuments(localStorage)) :
       getDocuments(localStorage)[i].folder # "General"

\* C24: in the chat panel, a send of a blank message appends nothing; a send
\* of any other message appends it and sets isLoading; while a timer of a
\* simulated reply is pending the panel is loading and no second timer has
\* been set; and the timer, when it fires, appends one AI message directly
\* after the user message it answers and clears isLoading.  Neither step
\* changes the graph.
C24_SendThenReply ==
  [][ /\ (lastOp'.op = "handleSendMessage" /\ IsBlank(chat.inputMessage))
         => (chat'.messages = chat.messages /\ timers' = timers)
      /\ (lastOp'.op = "handleSendMessage" /\ ~IsBlank(chat.inputMessage))
         => /\ chat'.messages =
                 Append(chat.messages,
                        [ type |-> "user", content |-> chat.inputMessage ])
            /\ chat'.isLoading
      /\ (chat'.mounted /\ timers' # {})
         => (chat'.isLoading /\ Cardinality(timers') = 1)
      /\ \A t \in timers :
           TimerFires(t)
             => /\ Len(chat.messages) = t.at
                /\ chat.messages[t.at] = [ type |-> "user", content |-> t.input ]
                /\ Len(chat'.messages) = t.at + 1
                /\ chat'.messages[t.at + 1].type = "ai"
                /\ SubSeq(chat'.messages, 1, t.at) = chat.messages
                /\ ~chat'.isLoading
      /\ lastOp'.op \in {"handleSendMessage", "timerFires"} => cy' = cy ]_vars

\* C25: in the two-click variant, in every reachable state, a first node is
\* held only while connection mode is on: firstNode non-null implies
\* isConnecting.
C25_FirstNodeOnlyWhileConnecting == ~IsNull(firstNode) => isConnecting

\* C26: in every reachable state of either variant, selectedNode, when not
\* null, has the id of a node of the displayed graph, and its label is the
\* label that node has in the graph.
C26_SelectionIsCurrent ==
  ~IsNull(selectedNode) =>
    /\ selectedNode.id \in cy.nodes
    /\ selectedNode.label = cy.label[selectedNode.id]

\* C27: in the two-click variant, whenever a tap on a node or on the
\* background is handled, the isConnecting and firstNode the listener reads
\* are the isConnecting and firstNode of the component.
C27_TapReadsCurrentState ==
  [][ lastOp'.op \in {"tapNode", "tapBackground"} =>
        /\ hIsConnecting = isConnecting
        /\ hFirstNode.id = firstNode.id ]_vars

\* the tap listener, on a tap of n, calls createEdge
TapCallsCreateEdge(n) ==
  /\ TapNodeConnect(n)
  /\ hIsConnecting
  /\ ~IsNull(hFirstNode)
  /\ hFirstNode.id # n

\* the mouseup listener, on a pointer-up on n that follows the pointer-down,
\* calls createEdge
MouseUpCallsCreateEdge(n) ==
  /\ MouseUpNode(n)
  /\ PointerIsDown
  /\ hIsDragging
  /\ hDragStart # NoId
  /\ hDragStart # n

\* C28: whenever a tap listener (two-click variant) or a mouseup listener
\* (drag variant) calls createEdge, the instance the call reads and writes
\* is not null and is the displayed instance: it holds the nodes and edges
\* the displayed graph holds.
C28_CreateEdgeOnDisplayedGraph ==
  [][ \A n \in cy.nodes :
        (TapCallsCreateEdge(n) \/ MouseUpCallsCreateEdge(n))
          => (hcy # <<>> /\ hcy[1] = Elements(cy)) ]_vars

\* a selectChat awaits the messages of its chat
MessageLoadInFlight == \E t \in pending : t.pc = "getMessages"

\* C29: in the project state container, whenever no load of messages is in
\* flight, messages is the list the backend stores for currentChat, and is
\* empty when currentChat is null, however the calls of selectProject and
\* selectChat overlap and in whatever order their responses arrive.
C29_MessagesOfCurrentChat ==
  ~MessageLoadInFlight =>
    provider.messages =
      IF provider.currentChat = NoId THEN << >>
      ELSE MockMessages(provider.currentChat)

\* C30: once the mount effect of AuthProvider has run, and after every
\* login response, logout and reload that follows in any order, the three
\* copies of the credential agree: the token state is non-null exactly when
\* localStorage holds 'auth_token', exactly when httpService.authToken is
\* non-null.
C30_CredentialCopiesAgree ==
  auth.mounted =>
    /\ (auth.token # NoToken) <=> localStorage["auth_token"].set
    /\ localStorage["auth_token"].set <=> (authToken # NoToken)

====
